---- MODULE Spec2Model ----
(***************************************************************************)
(* A model of clang_delta's "simplify-callexpr" transformation             *)
(* (SimplifyCallExpr.cpp).  One behaviour is one run of the transformation *)
(* over one translation unit: Initialize, then the AST traversal that      *)
(* HandleTopLevelDecl drives for every top-level function definition (the  *)
(* nodes of the program are supplied one at a time by the environment, in  *)
(* the pre-order RecursiveASTVisitor produces), then                       *)
(* HandleTranslationUnit, which checks the ordinal, seeds the name         *)
(* counter, runs replaceCallExpr and looks at the diagnostics.             *)
(***************************************************************************)
EXTENDS Integers, Sequences, FiniteSets, TLC

(***************************************************************************)
(* Bounds of the model.                                                    *)
(***************************************************************************)
MaxFuncs == 2        \* function declarations in the translation unit: the top-level
                     \* definitions and the declarations inside function bodies
MaxCalls == 2        \* call expressions in the translation unit
MaxArgs == 3         \* arguments of one call expression
MaxCounter == 3      \* the largest target ordinal tried
MaxExisting == 2     \* the largest temp-variable suffix already in the program

(***************************************************************************)
(* Types of expressions, as the strings getAsStringInternal prints.        *)
(***************************************************************************)
StructTypes == {"struct Z"}
UnionTypes == {"union U"}
ScalarTypes == {"int"}
ArgTypes == ScalarTypes \cup StructTypes \cup UnionTypes
ReturnTypes == ArgTypes \cup {"void"}

isStructureType(T) == T \in StructTypes
isUnionType(T) == T \in UnionTypes
isVoidType(T) == T = "void"

RECURSIVE SeqsUpTo(_, _)
SeqsUpTo(S, n) ==
    IF n = 0 THEN {<< >>}
    ELSE LET Shorter == SeqsUpTo(S, n - 1)
         IN Shorter \cup {Append(s, x) : s \in {t \in Shorter : Len(t) = n - 1}, x \in S}

(***************************************************************************)
(* AST nodes.  A FunctionDecl is a top-level definition ("def", numbered   *)
(* by its position among the top-level definitions) or a declaration       *)
(* nested in a function body ("decl"); a CallExpr is identified by its       *)
(* position in the traversal; its argument types and its type (the         *)
(* callee's return type) are read when the rewrite asks for them.          *)
(***************************************************************************)
NullFD == [kind |-> "null", n |-> 0]
DefFD(i) == [kind |-> "def", n |-> i]
NestedFD(j) == [kind |-> "decl", n |-> j]
NullCE == 0

TransSuccess == "TransSuccess"
TransMaxInstanceError == "TransMaxInstanceError"
TransInternalError == "TransInternalError"

VARIABLES
    pc,                   \* position of the run
    QueryInstanceOnly,    \* Transformation::QueryInstanceOnly
    TransformationCounter,\* the target ordinal
    ValidInstanceNum,     \* running count of call expressions
    TheCallExpr,          \* the recorded call expression
    CurrentFD,            \* SimplifyCallExpr::CurrentFD, recorded with it
    VisitorFD,            \* SimplifyCallExprVisitor::CurrentFD
    TransError,           \* outcome reported to the caller
    NamePostfix,          \* the name counter
    TheRewriter,          \* the buffer edits issued so far, in order
    topLevel,             \* top-level function definitions seen so far
    nested,               \* nested function declarations seen so far
    calls,                \* visited call expressions, in order: the definition whose body
                          \* holds the call and the call whose argument it is part of (0: none)
    open,                 \* call expressions whose arguments are being traversed
    nestedIn,             \* for each nested function declaration, the call expressions
                          \* whose source range holds it
    recordings,           \* how many times a selection was recorded
    scanned,              \* results of the name scans done so far
    allocated,            \* suffixes handed out by getTmpTransName, in order
    diagnosed,            \* what the diagnostics engine reported after the rewrite
    callShape             \* argument types and type of TheCallExpr, as the rewrite read them

vars == <<pc, QueryInstanceOnly, TransformationCounter, ValidInstanceNum, TheCallExpr,
          CurrentFD, VisitorFD, TransError, NamePostfix, TheRewriter, topLevel, nested,
          calls, open, nestedIn, recordings, scanned, allocated, diagnosed, callShape>>

astVars == <<topLevel, nested, calls, open, nestedIn>>
consumerVars == <<ValidInstanceNum, TheCallExpr, CurrentFD, recordings>>
rewriteVars == <<NamePostfix, TheRewriter, scanned, allocated, diagnosed, callShape>>

(***************************************************************************)
(* The state after construction: nothing counted, nothing selected, the    *)
(* outcome is success; the caller has set the target ordinal and the       *)
(* query flag.                                                             *)
(***************************************************************************)
Init ==
    /\ pc = "Uninitialized"
    /\ QueryInstanceOnly \in BOOLEAN
    /\ TransformationCounter \in 1..MaxCounter
    /\ ValidInstanceNum = 0
    /\ TheCallExpr = NullCE
    /\ CurrentFD = NullFD
    /\ VisitorFD = NullFD
    /\ TransError = TransSuccess
    /\ NamePostfix = 0
    /\ TheRewriter = << >>
    /\ topLevel = 0
    /\ nested = 0
    /\ calls = << >>
    /\ open = << >>
    /\ nestedIn = << >>
    /\ recordings = 0
    /\ scanned = << >>
    /\ allocated = << >>
    /\ diagnosed = << >>
    /\ callShape = << >>

(***************************************************************************)
(* Initialize: creates the visitor, whose CurrentFD starts NULL.           *)
(***************************************************************************)
Initialize ==
    /\ pc = "Uninitialized"
    /\ VisitorFD' = NullFD
    /\ pc' = "TopLevel"
    /\ UNCHANGED <<QueryInstanceOnly, TransformationCounter, TransError>>
    /\ UNCHANGED <<astVars, consumerVars, rewriteVars>>

(***************************************************************************)
(* SimplifyCallExprVisitor::VisitFunctionDecl.                             *)
(***************************************************************************)
VisitFunctionDecl(FD) ==
    VisitorFD' = FD

(***************************************************************************)
(* A slip VisitCallExpr could make: comparing the ordinal with the count   *)
(* before incrementing it.                                                 *)
(***************************************************************************)
VisitCallExpr_CompareBeforeIncrement(CE) ==
    /\ ValidInstanceNum' = ValidInstanceNum + 1
    /\ IF TransformationCounter # ValidInstanceNum
       THEN UNCHANGED <<TheCallExpr, CurrentFD, recordings>>
       ELSE /\ TheCallExpr' = CE
            /\ CurrentFD' = VisitorFD
            /\ recordings' = recordings + 1

(***************************************************************************)
(* SimplifyCallExprVisitor::VisitCallExpr.                                 *)
(***************************************************************************)
VisitCallExpr(CE) ==
    /\ ValidInstanceNum' = ValidInstanceNum + 1
    /\ IF TransformationCounter # ValidInstanceNum'
       THEN UNCHANGED <<TheCallExpr, CurrentFD, recordings>>
       ELSE /\ TheCallExpr' = CE
            /\ CurrentFD' = VisitorFD
            /\ recordings' = recordings + 1

(***************************************************************************)
(* HandleTopLevelDecl, one declaration of the group at a time: a           *)
(* declaration that is not a function definition is skipped, a function    *)
(* definition is traversed, VisitFunctionDecl first.                       *)
(***************************************************************************)
HandleTopLevelDecl_Skip ==
    /\ pc = "TopLevel"
    /\ UNCHANGED vars

HandleTopLevelDecl_Traverse ==
    /\ pc = "TopLevel"
    /\ topLevel + nested < MaxFuncs
    /\ topLevel' = topLevel + 1
    /\ VisitFunctionDecl(DefFD(topLevel + 1))
    /\ pc' = "Body"
    /\ UNCHANGED <<QueryInstanceOnly, TransformationCounter, TransError>>
    /\ UNCHANGED <<nested, calls, open, nestedIn, consumerVars, rewriteVars>>

(***************************************************************************)
(* The traversal of a function body: a nested function declaration (in a   *)
(* statement of the body, or in a statement expression or lambda inside a  *)
(* call's arguments), a call expression (visited before its arguments),    *)
(* the end of a call                                                       *)
(* expression's arguments, the end of the body.                            *)
(***************************************************************************)
Traverse_FunctionDecl ==
    /\ pc = "Body"
    /\ topLevel + nested < MaxFuncs
    /\ nested' = nested + 1
    /\ nestedIn' = Append(nestedIn, {open[i] : i \in 1..Len(open)})
    /\ VisitFunctionDecl(NestedFD(nested + 1))
    /\ UNCHANGED <<pc, QueryInstanceOnly, TransformationCounter, TransError>>
    /\ UNCHANGED <<topLevel, calls, open, consumerVars, rewriteVars>>

Traverse_CallExpr ==
    /\ pc = "Body"
    /\ Len(calls) < MaxCalls
    /\ VisitCallExpr(Len(calls) + 1)
    /\ calls' = Append(calls, [func |-> DefFD(topLevel),
                               parent |-> IF open = << >> THEN 0 ELSE open[Len(open)]])
    /\ open' = Append(open, Len(calls) + 1)
    /\ UNCHANGED <<pc, QueryInstanceOnly, TransformationCounter, TransError, VisitorFD>>
    /\ UNCHANGED <<topLevel, nested, nestedIn, rewriteVars>>

Traverse_EndCallExpr ==
    /\ pc = "Body"
    /\ open # << >>
    /\ open' = SubSeq(open, 1, Len(open) - 1)
    /\ UNCHANGED <<pc, QueryInstanceOnly, TransformationCounter, TransError, VisitorFD>>
    /\ UNCHANGED <<topLevel, nested, calls, nestedIn, consumerVars, rewriteVars>>

Traverse_EndDecl ==
    /\ pc = "Body"
    /\ open = << >>
    /\ pc' = "TopLevel"
    /\ UNCHANGED <<QueryInstanceOnly, TransformationCounter, TransError, VisitorFD>>
    /\ UNCHANGED <<astVars, consumerVars, rewriteVars>>

(***************************************************************************)
(* The services of RewriteUtils.  A temp-variable name is the prefix       *)
(* followed by the counter's value; a declaration is printed as the type,  *)
(* a blank and the name; an edit is appended to the rewriter's list with   *)
(* its anchor (the function it is inserted before, or the expression it    *)
(* replaces) and its text.                                                 *)
(***************************************************************************)
TmpVarNamePrefix == "tmp_var_"

getTmpTransName(Postfix) == TmpVarNamePrefix \o ToString(Postfix)

getAsStringInternal(T, Str) == T \o " " \o Str

insertStringBeforeFunc(FD, Str, Rewriter) ==
    Append(Rewriter, [kind |-> "insert", func |-> FD, expr |-> NullCE, text |-> <<Str>>])

replaceExpr(CE, Str, Rewriter) ==
    Append(Rewriter, [kind |-> "replace", func |-> NullFD, expr |-> CE, text |-> Str])

(***************************************************************************)
(* A slip handleOneArgStr could make: not incrementing the name counter.   *)
(***************************************************************************)
handleOneArgStr_NoIncrement(ArgT, st) ==
    IF ~isUnionType(ArgT) /\ ~isStructureType(ArgT)
    THEN [st EXCEPT !.Str = "0"]
    ELSE LET Str == getTmpTransName(st.NamePostfix)
             TmpVarStr == getAsStringInternal(ArgT, Str) \o ";\n"
         IN [st EXCEPT !.Str = Str,
                       !.allocated = Append(st.allocated, st.NamePostfix),
                       !.TheRewriter = insertStringBeforeFunc(CurrentFD, TmpVarStr, @)]

(***************************************************************************)
(* SimplifyCallExpr::handleOneArgStr, on the rewrite's working state st    *)
(* (the name counter, the edits, the names handed out, the text CommaStr   *)
(* built so far): the result carries the operand text in Str.              *)
(***************************************************************************)
handleOneArgStr(ArgT, st) ==
    IF ~isUnionType(ArgT) /\ ~isStructureType(ArgT)
    THEN [st EXCEPT !.Str = "0"]
    ELSE LET Str == getTmpTransName(st.NamePostfix)
             TmpVarStr == getAsStringInternal(ArgT, Str) \o ";\n"
         IN [st EXCEPT !.Str = Str,
                       !.NamePostfix = st.NamePostfix + 1,
                       !.allocated = Append(st.allocated, st.NamePostfix),
                       !.TheRewriter = insertStringBeforeFunc(CurrentFD, TmpVarStr, @)]

(***************************************************************************)
(* The argument loop of replaceCallExpr: argument 0 opens the parenthesis, *)
(* every later argument is preceded by a comma.                            *)
(***************************************************************************)
RECURSIVE replaceCallExpr_Args(_, _, _)
replaceCallExpr_Args(args, I, st) ==
    IF I > Len(args) THEN st
    ELSE LET h == handleOneArgStr(args[I], st)
         IN replaceCallExpr_Args(args, I + 1,
                [h EXCEPT !.CommaStr = @ \o <<IF I = 1 THEN "(" ELSE ",", h.Str>>])

(***************************************************************************)
(* The return-value part of replaceCallExpr.                               *)
(***************************************************************************)
replaceCallExpr_Return(RVType, st) ==
    IF isVoidType(RVType) THEN st
    ELSE IF isUnionType(RVType) \/ isStructureType(RVType)
    THEN LET RVStr == getTmpTransName(st.NamePostfix)
         IN [st EXCEPT !.NamePostfix = st.NamePostfix + 1,
                       !.allocated = Append(st.allocated, st.NamePostfix),
                       !.CommaStr = @ \o <<",", RVStr>>,
                       !.TheRewriter = insertStringBeforeFunc(CurrentFD,
                                           getAsStringInternal(RVType, RVStr) \o ";\n", @)]
    ELSE [st EXCEPT !.CommaStr = @ \o <<",", "0">>]

(***************************************************************************)
(* SimplifyCallExpr::replaceCallExpr on a call with the given argument     *)
(* types and type: the working state after the last edit.                  *)
(***************************************************************************)
replaceCallExpr_Result(args, RVType) ==
    LET st0 == [Str |-> "", CommaStr |-> << >>, NamePostfix |-> NamePostfix,
                allocated |-> allocated, TheRewriter |-> TheRewriter]
    IN IF Len(args) = 0
       THEN [st0 EXCEPT !.TheRewriter = replaceExpr(TheCallExpr, st0.CommaStr, @)]
       ELSE LET st1 == replaceCallExpr_Args(args, 1, st0)
                st2 == replaceCallExpr_Return(RVType, st1)
                st3 == [st2 EXCEPT !.CommaStr = @ \o <<")">>]
            IN [st3 EXCEPT !.TheRewriter = replaceExpr(TheCallExpr, st3.CommaStr, @)]

(***************************************************************************)
(* Two slips HandleTranslationUnit could make: setting the max-instance    *)
(* error without returning, so that the assertion on TheCallExpr is        *)
(* reached, and not looking at the diagnostics.                            *)
(***************************************************************************)
HandleTranslationUnit_NoReturn ==
    /\ pc = "TopLevel"
    /\ IF QueryInstanceOnly
       THEN pc' = "Done" /\ UNCHANGED TransError
       ELSE /\ TransError' = IF TransformationCounter > ValidInstanceNum
                             THEN TransMaxInstanceError ELSE TransError
            /\ pc' = IF TheCallExpr = NullCE \/ CurrentFD = NullFD THEN "Aborted" ELSE "Found"
    /\ UNCHANGED <<QueryInstanceOnly, TransformationCounter, VisitorFD>>
    /\ UNCHANGED <<astVars, consumerVars, rewriteVars>>

HandleTranslationUnit_DiagnosticsIgnored ==
    /\ pc = "Rewritten"
    /\ \E hasErrorOccurred \in BOOLEAN :
          /\ diagnosed' = Append(diagnosed, hasErrorOccurred)
          /\ UNCHANGED TransError
    /\ pc' = "Done"
    /\ UNCHANGED <<QueryInstanceOnly, TransformationCounter, VisitorFD>>
    /\ UNCHANGED <<astVars, consumerVars, NamePostfix, TheRewriter, scanned, allocated, callShape>>

(***************************************************************************)
(* HandleTranslationUnit, in its four steps: the checks of the query flag, *)
(* the ordinal and the two assertions; the name scan that seeds the        *)
(* counter; replaceCallExpr; the look at the diagnostics.                  *)
(***************************************************************************)
HandleTranslationUnit ==
    /\ pc = "TopLevel"
    /\ IF QueryInstanceOnly
       THEN pc' = "Done" /\ UNCHANGED TransError
       ELSE IF TransformationCounter > ValidInstanceNum
       THEN pc' = "Done" /\ TransError' = TransMaxInstanceError
       ELSE IF TheCallExpr = NullCE \/ CurrentFD = NullFD
       THEN pc' = "Aborted" /\ UNCHANGED TransError
       ELSE pc' = "Found" /\ UNCHANGED TransError
    /\ UNCHANGED <<QueryInstanceOnly, TransformationCounter, VisitorFD>>
    /\ UNCHANGED <<astVars, consumerVars, rewriteVars>>

HandleTranslationUnit_Names ==
    /\ pc = "Found"
    /\ \E MaxNamePostfix \in {0, MaxExisting} :
          /\ scanned' = Append(scanned, MaxNamePostfix)
          /\ NamePostfix' = MaxNamePostfix + 1
    /\ pc' = "Rewriting"
    /\ UNCHANGED <<QueryInstanceOnly, TransformationCounter, TransError, VisitorFD>>
    /\ UNCHANGED <<astVars, consumerVars, TheRewriter, allocated, diagnosed, callShape>>

replaceCallExpr ==
    /\ pc = "Rewriting"
    /\ \E args \in SeqsUpTo(ArgTypes, MaxArgs), RVType \in ReturnTypes :
          LET st == replaceCallExpr_Result(args, RVType)
          IN /\ callShape' = Append(callShape, [args |-> args, rtype |-> RVType])
             /\ NamePostfix' = st.NamePostfix
             /\ allocated' = st.allocated
             /\ TheRewriter' = st.TheRewriter
    /\ pc' = "Rewritten"
    /\ UNCHANGED <<QueryInstanceOnly, TransformationCounter, TransError, VisitorFD>>
    /\ UNCHANGED <<astVars, consumerVars, scanned, diagnosed>>

HandleTranslationUnit_Diagnostics ==
    /\ pc = "Rewritten"
    /\ \E hasErrorOccurred \in BOOLEAN :
          /\ diagnosed' = Append(diagnosed, hasErrorOccurred)
          /\ TransError' = IF hasErrorOccurred THEN TransInternalError ELSE TransError
    /\ pc' = "Done"
    /\ UNCHANGED <<QueryInstanceOnly, TransformationCounter, VisitorFD>>
    /\ UNCHANGED <<astVars, consumerVars, NamePostfix, TheRewriter, scanned, allocated, callShape>>

Next ==
    \/ Initialize
    \/ HandleTopLevelDecl_Skip
    \/ HandleTopLevelDecl_Traverse
    \/ Traverse_FunctionDecl
    \/ Traverse_CallExpr
    \/ Traverse_EndCallExpr
    \/ Traverse_EndDecl
    \/ HandleTranslationUnit
    \/ HandleTranslationUnit_Names
    \/ replaceCallExpr
    \/ HandleTranslationUnit_Diagnostics

Spec == Init /\ [][Next]_vars

(***************************************************************************)
(* Vocabulary of the properties.                                           *)
(***************************************************************************)
IsAggregate(T) == T \in StructTypes \cup UnionTypes

Traversing == pc \in {"Uninitialized", "TopLevel", "Body"}

\* The rewrite has run: replaceCallExpr has returned.
Rewrote == pc \in {"Rewritten", "Done"} /\ callShape # << >>

InRange == TransformationCounter <= ValidInstanceNum

Replacements == SelectSeq(TheRewriter, LAMBDA e : e.kind = "replace")
Insertions == SelectSeq(TheRewriter, LAMBDA e : e.kind = "insert")

\* The text that replaced the selected call.
Replacement == Replacements[Len(Replacements)].text

\* The declaration text of a temp variable of type T with suffix n.
Declaration(T, n) == <<T \o " " \o TmpVarNamePrefix \o ToString(n) \o ";\n">>

AggregatesOf(args) == SelectSeq(args, IsAggregate)

\* A parenthesized comma-expression: "(", operands separated by ",", ")".
IsCommaExpr(text) ==
    /\ Len(text) >= 3
    /\ Len(text) % 2 = 1
    /\ text[1] = "("
    /\ text[Len(text)] = ")"
    /\ \A i \in 2..(Len(text) - 1) :
          IF i % 2 = 1 THEN text[i] = "," ELSE text[i] \notin {",", "(", ")"}

OperandCount(text) == (Len(text) - 1) \div 2
Operand(text, i) == text[2 * i]

\* The function definition whose body holds call c, and the calls whose
\* source range holds call c.
EnclosingFunction(c) == calls[c].func

RECURSIVE AncestorsOf(_)
AncestorsOf(c) ==
    IF calls[c].parent = 0 THEN {}
    ELSE {calls[c].parent} \cup AncestorsOf(calls[c].parent)

\* The text inside the source range of call c is changed by an edit: a
\* replacement of c, of a call inside c or of a call around c, or an
\* insertion before a function declaration that stands inside c.
Changed(c) ==
    \E k \in 1..Len(TheRewriter) :
       LET e == TheRewriter[k]
       IN IF e.kind = "replace"
          THEN e.expr = c \/ c \in AncestorsOf(e.expr) \/ e.expr \in AncestorsOf(c)
          ELSE e.func.kind = "decl" /\ c \in nestedIn[e.func.n]

(***************************************************************************)
(* The properties.                                                         *)
(***************************************************************************)

\* C1: the replacement text committed by replaceCallExpr is empty exactly
\* when the call has no argument and returns void; in every other case it
\* is a parenthesized comma-expression with one operand per argument, plus
\* one when the return type is not void.
C1_ReplacementShape ==
    Rewrote =>
       LET n == Len(callShape[1].args)
           rt == callShape[1].rtype
       IN /\ (Replacement = << >>) <=> (n = 0 /\ rt = "void")
          /\ Replacement # << >> =>
                /\ IsCommaExpr(Replacement)
                /\ OperandCount(Replacement) = n + (IF rt = "void" THEN 0 ELSE 1)

\* C2: a call with no argument and a non-void return type still gets its
\* trailing result operand: for a struct or union return type one
\* declaration of that type is inserted before the enclosing function, one
\* name is allocated and the call becomes "(<name>)"; for any other
\* non-void type nothing is inserted and the call becomes "(0)".
C2_NoArgumentResultOperand ==
    (Rewrote /\ Len(callShape[1].args) = 0 /\ callShape[1].rtype # "void") =>
       LET rt == callShape[1].rtype
       IN IF IsAggregate(rt)
          THEN /\ Len(Insertions) = 1
               /\ Len(allocated) = 1
               /\ Insertions[1].text = Declaration(rt, allocated[1])
               /\ Insertions[1].func = EnclosingFunction(TheCallExpr)
               /\ Replacement = <<"(", TmpVarNamePrefix \o ToString(allocated[1]), ")">>
          ELSE /\ Len(Insertions) = 0
               /\ Len(allocated) = 0
               /\ Replacement = <<"(", "0", ")">>

\* The operands of the arguments, with the declarations anchored before
\* the function Anchor: the i-th operand is the name allocated for the
\* argument, declared with the argument's type before Anchor, exactly when
\* the argument is a struct or a union, and the literal 0 otherwise; names
\* and declarations exist only for aggregates.
ArgumentOperands(Anchor) ==
    LET args == callShape[1].args
        rt == callShape[1].rtype
        n == Len(args)
    IN /\ IsCommaExpr(Replacement)
       /\ OperandCount(Replacement) >= n
       /\ \A i \in 1..n :
             LET k == Len(AggregatesOf(SubSeq(args, 1, i)))
             IN IF IsAggregate(args[i])
                THEN /\ k <= Len(allocated)
                     /\ k <= Len(Insertions)
                     /\ Operand(Replacement, i) = TmpVarNamePrefix \o ToString(allocated[k])
                     /\ Insertions[k].text = Declaration(args[i], allocated[k])
                     /\ Insertions[k].func = Anchor
                ELSE Operand(Replacement, i) = "0"
       /\ Len(Insertions) = Len(AggregatesOf(args)) + (IF IsAggregate(rt) THEN 1 ELSE 0)
       /\ Len(allocated) = Len(Insertions)

\* C3: for every argument position i of the selected call, the i-th
\* operand of the replacement is a freshly allocated temp-variable name,
\* with one declaration "<argument type> <name>;" inserted before the
\* enclosing function, if and only if the argument is a struct or a union;
\* otherwise the operand is 0, nothing is inserted and no name is
\* allocated; the operands keep the argument order.
C3_ArgumentOperands ==
    (Rewrote /\ Len(callShape[1].args) >= 1) =>
       ArgumentOperands(EnclosingFunction(TheCallExpr))

\* C3, with the declarations anchored before the function the selector
\* recorded (CurrentFD) instead of the enclosing function: this is what
\* holds of the rewrite whatever the selector recorded.
C3_ArgumentOperandsAtRecordedFunction ==
    (Rewrote /\ Len(callShape[1].args) >= 1) => ArgumentOperands(CurrentFD)

C3_Witness ==
    /\ Rewrote
    /\ callShape[1] = [args |-> <<"int", "struct Z", "union U">>, rtype |-> "int"]
    /\ scanned = <<MaxExisting>>
    /\ Replacement = <<"(", "0", ",", "tmp_var_3", ",", "tmp_var_4", ",", "0", ")">>

\* C4: the name counter is seeded to the largest existing temp-variable
\* suffix plus one before the first allocation and incremented after every
\* allocation, so the suffixes allocated in a run are pairwise distinct and
\* all greater than the largest existing suffix.
C4_FreshNames ==
    /\ Len(scanned) <= 1
    /\ scanned = << >> => allocated = << >>
    /\ scanned # << >> =>
          /\ NamePostfix = scanned[1] + 1 + Len(allocated)
          /\ \A i \in 1..Len(allocated) :
                /\ allocated[i] = scanned[1] + i
                /\ allocated[i] > scanned[1]
                /\ \A j \in 1..Len(allocated) : i # j => allocated[i] # allocated[j]

C4_Witness ==
    /\ Rewrote
    /\ scanned = <<MaxExisting>>
    /\ Len(allocated) >= 3
    /\ IsAggregate(callShape[1].rtype)

\* C5: if the target ordinal is greater than the number of call
\* expressions counted, HandleTranslationUnit reports the max-instance
\* error and returns without any buffer edit, any name scan and any name
\* allocation.
C5_OutOfRange ==
    (~Traversing /\ ~InRange) =>
       /\ pc = "Done"
       /\ TransError = TransMaxInstanceError
       /\ TheRewriter = << >>
       /\ scanned = << >>
       /\ allocated = << >>

\* C5 as amended: the same in a run that is not query-instance-only; a
\* query-instance-only run returns before the ordinal is looked at and
\* leaves the outcome as it was, also without edit, scan or allocation.
C5_OutOfRangeUnlessQuery ==
    (~Traversing /\ ~InRange) =>
       /\ pc = "Done"
       /\ TransError = IF QueryInstanceOnly THEN TransSuccess ELSE TransMaxInstanceError
       /\ TheRewriter = << >>
       /\ scanned = << >>
       /\ allocated = << >>

C5_Witness ==
    /\ pc = "Done"
    /\ ~QueryInstanceOnly
    /\ ValidInstanceNum = 2
    /\ TransformationCounter = 3
    /\ TransError = TransMaxInstanceError

\* C6: for every target ordinal K within range, the recorded call
\* expression is the K-th one visited, it is recorded exactly once and no
\* later visit overwrites it, and the running count is the number of call
\* expressions visited.
C6_Selection ==
    /\ ValidInstanceNum = Len(calls)
    /\ recordings = (IF InRange THEN 1 ELSE 0)
    /\ TheCallExpr = (IF InRange THEN TransformationCounter ELSE NullCE)

C6_Witness ==
    /\ pc = "Found"
    /\ TransformationCounter = 1
    /\ Len(calls) = 2
    /\ TheCallExpr = 1
    /\ recordings = 1

\* The edits of a run that found its call: one replacement, of the
\* selected call; every other edit is a declaration inserted before Anchor.
OneReplacement(Anchor) ==
    /\ Len(Replacements) = 1
    /\ Replacements[1].expr = TransformationCounter
    /\ TheCallExpr = TransformationCounter
    /\ \A k \in 1..Len(Insertions) : Insertions[k].func = Anchor

\* C7: a run with an ordinal within range performs exactly one call-site
\* replacement, at the selected call; the only other edits are declarations
\* inserted before the enclosing function, so the source range of every
\* other call expression is left unchanged.  Stated for the runs that
\* rewrite (not query-instance-only) and for the other call expressions
\* that neither hold the selected call nor lie inside it, which is the
\* least the claim says.
C7_OnlySelectedCallChanged ==
    (pc = "Done" /\ InRange /\ ~QueryInstanceOnly) =>
       /\ OneReplacement(EnclosingFunction(TransformationCounter))
       /\ \A c \in 1..Len(calls) :
             (/\ c # TransformationCounter
              /\ c \notin AncestorsOf(TransformationCounter)
              /\ TransformationCounter \notin AncestorsOf(c)) => ~Changed(c)

\* C7, word for word: every run with an ordinal within range, every other
\* call expression.
C7_OnlySelectedCallChangedInEveryRun ==
    (pc = "Done" /\ InRange) =>
       /\ OneReplacement(EnclosingFunction(TransformationCounter))
       /\ \A c \in 1..Len(calls) : c # TransformationCounter => ~Changed(c)

\* C7, with the declarations anchored before the function the selector
\* recorded (CurrentFD): this is what holds of the edits whatever the
\* selector recorded.  A run that is not query-instance-only performs
\* exactly one replacement, at the selected call; a call expression's
\* source range is changed only if it is the selected call, holds it, lies
\* inside it, or holds the recorded function declaration; a
\* query-instance-only run performs no edit.
C7_OnlyRelatedCallsChanged ==
    /\ (pc = "Done" /\ InRange /\ ~QueryInstanceOnly) =>
          /\ OneReplacement(CurrentFD)
          /\ \A c \in 1..Len(calls) :
                Changed(c) =>
                   \/ c = TransformationCounter
                   \/ c \in AncestorsOf(TransformationCounter)
                   \/ TransformationCounter \in AncestorsOf(c)
                   \/ /\ CurrentFD.kind = "decl"
                      /\ c \in nestedIn[CurrentFD.n]
                      /\ Len(Insertions) > 0
    /\ QueryInstanceOnly => TheRewriter = << >>

C7_Witness ==
    /\ pc = "Done"
    /\ ~QueryInstanceOnly
    /\ Len(calls) = 2
    /\ TransformationCounter = 2
    /\ calls[2].parent = 1
    /\ Changed(1)
    /\ Len(Insertions) >= 1

\* The states of a run, read off the position of the run and the outcome.
Phase ==
    CASE pc = "Uninitialized" -> "Uninitialized"
      [] pc \in {"TopLevel", "Body"} -> "Selecting"
      [] pc = "Found" -> "Found"
      [] pc \in {"Rewriting", "Rewritten"} -> "Rewriting"
      [] pc = "Aborted" -> "Aborted"
      [] pc = "Done" -> IF TransError = TransMaxInstanceError THEN "NotFound"
                        ELSE IF TransError = TransInternalError THEN "Failed"
                        ELSE "Committed"

RunTransitions ==
    {<<"Uninitialized", "Selecting">>, <<"Selecting", "Found">>, <<"Selecting", "NotFound">>,
     <<"Found", "Rewriting">>, <<"Rewriting", "Committed">>, <<"Rewriting", "Failed">>}

\* What a run does besides changing its state: buffer edits are issued
\* only while Rewriting, for an ordinal within range; the run has failed
\* exactly when the diagnostics engine reported an error after the rewrite;
\* it stops only in NotFound, Failed or Committed.
RunInvariant ==
    /\ TheRewriter # << >> => (Phase \in {"Rewriting", "Committed", "Failed"} /\ InRange)
    /\ Phase = "Failed" <=> diagnosed = <<TRUE>>
    /\ Phase = "NotFound" => (~InRange /\ diagnosed = << >>)
    /\ Phase \in {"Found", "Rewriting"} => (InRange /\ open = << >>)
    /\ Phase \notin {"NotFound", "Failed", "Committed"} => (ENABLED Next /\ pc # "Aborted")

\* C8: every run follows Uninitialized -> Selecting -> {Found, NotFound}
\* and Found -> Rewriting -> {Committed, Failed}; edits start only after the
\* traversal, with the ordinal found; NotFound is reached without
\* Rewriting; Failed is reached only from Rewriting, exactly when the
\* diagnostics engine reports an error after the rewrite; every run ends in
\* one of NotFound, Failed, Committed.
C8_RunStateMachine ==
    /\ []RunInvariant
    /\ [][Phase' # Phase => <<Phase, Phase'>> \in RunTransitions]_vars

\* C8 as amended: the same for every run that is not query-instance-only;
\* a query-instance-only run goes from Selecting straight to its end,
\* without Found, Rewriting or any edit, and its outcome stays success.
C8_RunStateMachineUnlessQuery ==
    /\ []RunInvariant
    /\ [][Phase' # Phase =>
            IF QueryInstanceOnly /\ Phase = "Selecting"
            THEN Phase' = "Committed" /\ TheRewriter' = << >>
            ELSE <<Phase, Phase'>> \in RunTransitions]_vars

C8_Witness ==
    /\ Phase = "Failed"
    /\ ~QueryInstanceOnly
    /\ diagnosed = <<TRUE>>
    /\ Len(TheRewriter) >= 2

\* C9: whenever a call expression is recorded, the function recorded with
\* it is non-null and is the function definition whose body holds the
\* call, whatever function declarations were visited before the call; so
\* the assertions of HandleTranslationUnit hold for an ordinal within range.
C9_RecordedEnclosingFunction ==
    /\ TheCallExpr # NullCE =>
          /\ CurrentFD # NullFD
          /\ CurrentFD = EnclosingFunction(TheCallExpr)
    /\ pc # "Aborted"

\* C9, the part that holds: the recorded function is never null, and the
\* assertions of HandleTranslationUnit never fail.
C9_RecordedFunctionNotNull ==
    /\ TheCallExpr # NullCE => CurrentFD # NullFD
    /\ pc # "Aborted"

\* The order of the edits, with the declarations anchored before Anchor:
\* the declarations of the aggregate arguments in argument order, with
\* increasing suffixes, then the declaration for an aggregate return value
\* if there is one, and the replacement last.
EditOrder(Anchor) ==
    LET N == Len(TheRewriter)
        aggs == AggregatesOf(callShape[1].args)
        rt == callShape[1].rtype
    IN /\ TheRewriter[N].kind = "replace"
       /\ \A k \in 1..(N - 1) :
             /\ TheRewriter[k].kind = "insert"
             /\ TheRewriter[k].func = Anchor
       /\ Len(allocated) = N - 1
       /\ \A k \in 1..(N - 2) : allocated[k] < allocated[k + 1]
       /\ N - 1 \in {Len(aggs), Len(aggs) + 1}
       /\ \A k \in 1..Len(aggs) : TheRewriter[k].text = Declaration(aggs[k], allocated[k])
       /\ N - 1 = Len(aggs) + 1 =>
             /\ IsAggregate(rt)
             /\ TheRewriter[N - 1].text = Declaration(rt, allocated[N - 1])

\* C10: within one run the edits are issued in this order: one declaration
\* per aggregate argument in argument order, with strictly increasing
\* suffixes, then the declaration for an aggregate return value, then the
\* single call-site replacement, after which no edit is issued; every
\* declaration is anchored before the same enclosing function.
C10_EditOrder ==
    /\ TheRewriter # << >> => (Rewrote /\ EditOrder(EnclosingFunction(TheCallExpr)))
    /\ Rewrote => TheRewriter # << >>

\* C10, with the declarations anchored before the function the selector
\* recorded (CurrentFD): this is what holds of the rewrite whatever the
\* selector recorded.
C10_EditOrderAtRecordedFunction ==
    /\ TheRewriter # << >> => (Rewrote /\ EditOrder(CurrentFD))
    /\ Rewrote => TheRewriter # << >>

====
